---- MODULE Spec2Model ----
(***************************************************************************)
(* Model of the model-routing subsystem of goyo_ai_helper:                 *)
(*   services/model_service/core/config.py    ServiceConfig, ModelConfig   *)
(*   services/model_service/core/fallback.py  FallbackStrategy,            *)
(*                                            CircuitBreaker               *)
(*   services/model_service/core/manager.py   ModelManager                 *)
(*   services/model_service/providers/        the OpenRouter and Gemini    *)
(*                                            adapters                     *)
(* Times are whole seconds, temperatures are tenths.  An Optional value is *)
(* the empty sequence (None) or a one-element sequence.                    *)
(***************************************************************************)
EXTENDS Integers, Sequences, FiniteSets, TLC

VARIABLES
    now,                 \* time.time()
    failure_counts,      \* CircuitBreaker.failure_counts      (a dict)
    last_failure_times,  \* CircuitBreaker.last_failure_times  (a dict)
    probe,               \* the last direct CircuitBreaker call: method, provider, answer,
                         \* the provider's failure count before it, and how many
                         \* record_failure calls on that provider it ends in a row
    providers,           \* ModelManager.providers: the registered provider names
    env,                 \* the process environment (os.getenv)
    FALLBACK_CONFIGS,    \* ServiceConfig._FALLBACK_CONFIGS: None or the cached chains
    request_count,       \* ModelManager._request_count
    total_duration,      \* ModelManager._total_duration
    calls,               \* the complete() calls: position, locals, result
    exchange             \* an adapter method called on its own: the adapter, the
                         \* method, the vendor's answer to its HTTP request, the result

breaker_vars == <<failure_counts, last_failure_times, probe>>
manager_vars == <<providers, env, FALLBACK_CONFIGS, request_count, total_duration, calls>>
vars == <<now, failure_counts, last_failure_times, probe,
          providers, env, FALLBACK_CONFIGS, request_count, total_duration, calls, exchange>>

----------------------------------------------------------------------------
(* Bounds of the model *)

\* The clock stops here.
MaxTime == 61
\* record_failure is not called directly on a provider that already has this many failures.
MaxFailures == 6

(* Program constants *)

\* CircuitBreaker.__init__: failure_threshold
failure_threshold == 5
\* CircuitBreaker.__init__: reset_timeout
reset_timeout == 60

\* The steps the clock advances by: exactly the reset timeout, or one second more.
TickSteps == {reset_timeout, reset_timeout + 1}

None == <<>>
\* {}
EmptyDict == [x \in {} |-> 0]
Some(v) == <<v>>

\* ProviderType
Providers == {"openrouter", "openai", "gemini"}

----------------------------------------------------------------------------
(* CircuitBreaker: the two dicts are functions whose DOMAIN is the key set *)

\* dict.pop(key, None)
Pop(d, k) == [x \in (DOMAIN d) \ {k} |-> d[x]]
\* d[key] = value
Put(d, k, v) == [x \in (DOMAIN d) \cup {k} |-> IF x = k THEN v ELSE d[x]]
\* dict.get(key, default)
Get(d, k, default) == IF k \in DOMAIN d THEN d[k] ELSE default

Breaker(fc, lft) == [failure_counts |-> fc, last_failure_times |-> lft]

\* Mutant of ResetDue: the timeout compared with >= instead of >.
ResetDueAtTimeout(b, provider_name, current_time) ==
    /\ provider_name \in DOMAIN b.last_failure_times
    /\ current_time - b.last_failure_times[provider_name] >= reset_timeout

\* is_available: the condition of the timed reset
ResetDue(b, provider_name, current_time) ==
    /\ provider_name \in DOMAIN b.last_failure_times
    /\ current_time - b.last_failure_times[provider_name] > reset_timeout

\* Mutant of is_available_effect: the timed reset clears every provider.
is_available_effect_reset_all(b, provider_name, current_time) ==
    IF ResetDue(b, provider_name, current_time)
    THEN Breaker(EmptyDict, EmptyDict)
    ELSE b

\* is_available: the breaker after the reset check (the side effect)
is_available_effect(b, provider_name, current_time) ==
    IF ResetDue(b, provider_name, current_time)
    THEN Breaker(Pop(b.failure_counts, provider_name),
                 Pop(b.last_failure_times, provider_name))
    ELSE b

\* is_available: the answer
is_available(b, provider_name, current_time) ==
    LET after == is_available_effect(b, provider_name, current_time)
    IN  Get(after.failure_counts, provider_name, 0) < failure_threshold

\* Mutant of record_failure: the count is set to 1, not incremented.
record_failure_no_accumulate(b, provider_name, current_time) ==
    Breaker(Put(b.failure_counts, provider_name, 1),
            Put(b.last_failure_times, provider_name, current_time))

\* record_failure
record_failure(b, provider_name, current_time) ==
    Breaker(Put(b.failure_counts, provider_name,
                Get(b.failure_counts, provider_name, 0) + 1),
            Put(b.last_failure_times, provider_name, current_time))

\* Mutant of record_success: the count is decremented, not cleared.
record_success_decrement(b, provider_name) ==
    IF Get(b.failure_counts, provider_name, 0) > 1
    THEN Breaker(Put(b.failure_counts, provider_name, b.failure_counts[provider_name] - 1),
                 b.last_failure_times)
    ELSE Breaker(Pop(b.failure_counts, provider_name),
                 Pop(b.last_failure_times, provider_name))

\* Mutant of record_success: the last failure time is kept.
record_success_counts_only(b, provider_name) ==
    Breaker(Pop(b.failure_counts, provider_name), b.last_failure_times)

\* Mutant of record_success: every provider's failures are cleared.
record_success_all(b, provider_name) == Breaker(EmptyDict, EmptyDict)

\* record_success
record_success(b, provider_name) ==
    Breaker(Pop(b.failure_counts, provider_name),
            Pop(b.last_failure_times, provider_name))

TheBreaker == Breaker(failure_counts, last_failure_times)

SetBreaker(b) ==
    /\ failure_counts' = b.failure_counts
    /\ last_failure_times' = b.last_failure_times

(* Direct calls of the CircuitBreaker's methods *)

IsAvailableCall(p) ==
    /\ SetBreaker(is_available_effect(TheBreaker, p, now))
    /\ probe' = [op |-> "is_available", provider |-> p,
                 answer |-> is_available(TheBreaker, p, now),
                 prior |-> Get(failure_counts, p, 0), run |-> 0]
    /\ UNCHANGED <<now, manager_vars, exchange>>

RecordFailureCall(p) ==
    /\ Get(failure_counts, p, 0) < MaxFailures
    /\ SetBreaker(record_failure(TheBreaker, p, now))
    /\ probe' = [op |-> "record_failure", provider |-> p, answer |-> FALSE,
                 prior |-> Get(failure_counts, p, 0),
                 run |-> IF probe.op = "record_failure" /\ probe.provider = p
                         THEN probe.run + 1 ELSE 1]
    /\ UNCHANGED <<now, manager_vars, exchange>>

RecordSuccessCall(p) ==
    /\ SetBreaker(record_success(TheBreaker, p))
    /\ probe' = [op |-> "record_success", provider |-> p, answer |-> FALSE,
                 prior |-> Get(failure_counts, p, 0), run |-> 0]
    /\ UNCHANGED <<now, manager_vars, exchange>>

\* time passes
Tick ==
    /\ \E d \in TickSteps :
         /\ now + d <= MaxTime
         /\ now' = now + d
    /\ UNCHANGED <<breaker_vars, manager_vars, exchange>>

----------------------------------------------------------------------------
(* core/models.py and core/config.py *)

\* ServiceType
ServiceTypes == {"qa", "finance", "ocr", "calendar", "invoice"}

\* ModelConfig.__init__.  ModelConfig defines no __eq__: two configs are equal
\* only when they are the same object, which oid names.
ModelConfig(oid, provider, model, temperature, max_tokens, timeout) ==
    [oid |-> oid, provider |-> provider, model |-> model,
     temperature |-> temperature, max_tokens |-> max_tokens, timeout |-> timeout]

\* ServiceConfig._DEFAULT_CONFIGS
DEFAULT_CONFIGS ==
    [st \in {"qa", "finance", "ocr"} |->
        CASE st = "qa" ->
               ModelConfig("default.qa", "openrouter", "openai/gpt-oss-20b:free", 4, 4096, 30)
          [] st = "finance" ->
               ModelConfig("default.finance", "openrouter", "deepseek/deepseek-r1:free", 3, 8192, 30)
          [] st = "ocr" ->
               ModelConfig("default.ocr", "gemini", "gemini-2.5-flash", 1, 2048, 30)]

\* os.getenv(name, default)
getenv(e, name, default) == Get(e, name, default)

\* ServiceConfig._get_fallback_configs
get_fallback_configs(e) ==
    LET backup_chat_model == getenv(e, "BACKUP_CHAT_MODEL", "gpt-4")
        backup_vision_model == getenv(e, "BACKUP_VISION_MODEL", "gpt-4o")
        openai_model == getenv(e, "MODEL_NAME", backup_chat_model)
    IN [st \in {"qa", "finance", "ocr"} |->
        CASE st = "qa" ->
               << ModelConfig("fallback.qa.0", "openrouter", "x-ai/grok-4-fast:free", 4, 4096, 30),
                  ModelConfig("fallback.qa.1", "openai", openai_model, 4, 4096, 30),
                  ModelConfig("fallback.qa.2", "gemini", "gemini-2.0-flash-exp", 4, 4096, 30) >>
          [] st = "finance" ->
               << ModelConfig("fallback.finance.0", "openrouter", "x-ai/grok-4-fast:free", 3, 4096, 30),
                  ModelConfig("fallback.finance.1", "openai", openai_model, 3, 4096, 30),
                  ModelConfig("fallback.finance.2", "gemini", "gemini-2.0-flash-exp", 3, 4096, 30) >>
          [] st = "ocr" ->
               << ModelConfig("fallback.ocr.0", "gemini", "gemini-2.5-flash", 1, 4096, 30),
                  ModelConfig("fallback.ocr.1", "openai", backup_vision_model, 1, 4096, 30),
                  ModelConfig("fallback.ocr.2", "openrouter", "google/gemini-2.0-flash-exp:free", 1, 4096, 30) >>]

\* str.startswith
StartsWith(s, prefix) ==
    /\ Len(s) >= Len(prefix)
    /\ SubSeq(s, 1, Len(prefix)) = prefix

\* sub in s
Contains(s, sub) ==
    \E i \in 1..(Len(s) - Len(sub) + 1) : SubSeq(s, i, i + Len(sub) - 1) = sub

UpperCase == "ABCDEFGHIJKLMNOPQRSTUVWXYZ"
LowerCase == "abcdefghijklmnopqrstuvwxyz"

\* one character of str.lower() / str.upper()
MapChar(ch, from, to) ==
    IF \E i \in 1..Len(from) : SubSeq(from, i, i) = ch
    THEN LET i == CHOOSE j \in 1..Len(from) : SubSeq(from, j, j) = ch
         IN  SubSeq(to, i, i)
    ELSE ch

RECURSIVE MapString(_, _, _)
MapString(s, from, to) ==
    IF Len(s) = 0 THEN s
    ELSE MapChar(SubSeq(s, 1, 1), from, to) \o MapString(SubSeq(s, 2, Len(s)), from, to)

\* str.lower
Lower(s) == MapString(s, UpperCase, LowerCase)
\* str.upper
Upper(s) == MapString(s, LowerCase, UpperCase)

\* ServiceConfig._infer_provider
infer_provider(model) ==
    IF StartsWith(model, "gpt-") \/ Contains(Lower(model), "openai") THEN "openai"
    ELSE IF StartsWith(model, "gemini") \/ Contains(Lower(model), "google") THEN "gemini"
    ELSE "openrouter"

\* ServiceConfig._load_from_env: None, or the config the environment gives
load_from_env(e, service_type) ==
    LET service_prefix == Upper(service_type) \o "_SERVICE"
        model == getenv(e, service_prefix \o "_MODEL", "")
    IN  IF model = "" THEN None
        ELSE Some(ModelConfig("env." \o service_type, infer_provider(model), model,
                              getenv(e, service_prefix \o "_TEMPERATURE", 7),
                              getenv(e, service_prefix \o "_MAX_TOKENS", 4096),
                              getenv(e, service_prefix \o "_TIMEOUT", 30)))

\* ServiceConfig.get_primary_config
get_primary_config(e, service_type) ==
    LET env_config == load_from_env(e, service_type)
    IN  IF env_config # None THEN env_config[1]
        ELSE Get(DEFAULT_CONFIGS, service_type, DEFAULT_CONFIGS["qa"])

\* ServiceConfig.get_fallback_chain: the class attribute after the call
fallback_cache_after(cache, e) ==
    IF cache = None THEN Some(get_fallback_configs(e)) ELSE cache

\* ServiceConfig.get_fallback_chain: the chain returned
get_fallback_chain(cache, e, service_type) ==
    LET configs == fallback_cache_after(cache, e)[1]
    IN  Get(configs, service_type, configs["qa"])

----------------------------------------------------------------------------
(* Exceptions: a record of the class name and the message (str(e)); an       *)
(* attribute the exception object carries is a further field of the record.  *)

Exc(type, text) == [type |-> type, text |-> text]

\* The base classes of the exception classes that occur (core/models.py,
\* builtins, json and httpx).
Bases(type) ==
    CASE type = "QuotaExceededError" -> {"QuotaExceededError", "ModelError", "Exception"}
      [] type = "ProviderUnavailableError" -> {"ProviderUnavailableError", "ModelError", "Exception"}
      [] type = "NotImplementedError" -> {"NotImplementedError", "RuntimeError", "Exception"}
      [] type = "KeyError" -> {"KeyError", "LookupError", "Exception"}
      [] type = "IndexError" -> {"IndexError", "LookupError", "Exception"}
      [] type = "JSONDecodeError" -> {"JSONDecodeError", "ValueError", "Exception"}
      [] type = "ConnectError" ->
           {"ConnectError", "NetworkError", "TransportError", "RequestError", "HTTPError", "Exception"}
      [] type = "ReadTimeout" ->
           {"ReadTimeout", "TimeoutException", "TransportError", "RequestError", "HTTPError", "Exception"}

\* str(x) of an Optional exception
StrOpt(e) == IF e = None THEN "None" ELSE e[1].text

\* hasattr(e, name)
hasattr(e, name) == name \in DOMAIN e

\* bool(x) of an Optional number: None and 0 are false
TruthyNum(x) == x # None /\ x[1] # 0
\* bool(x) of an Optional list: None and [] are false
TruthyList(x) == x # None /\ Len(x[1]) > 0

\* x in list
InList(x, list) == \E i \in 1..Len(list) : list[i] = x

----------------------------------------------------------------------------
(* core/fallback.py: FallbackStrategy *)

\* ModelRequest
ModelRequest(messages, service_type, images, stream, temperature, max_tokens, timeout) ==
    [messages |-> messages, service_type |-> service_type, images |-> images,
     stream |-> stream, temperature |-> temperature, max_tokens |-> max_tokens,
     timeout |-> timeout]

\* ModelResponse
ModelResponse(content, provider, model, error, duration) ==
    [content |-> content, provider |-> provider, model |-> model,
     usage |-> EmptyDict, cost |-> 0,
     duration |-> duration, error |-> error, fallback_used |-> FALSE]

\* Mutant of execute_request: the vision path is taken whenever images is not
\* None, an empty list included.
execute_request_images_not_none(request, config) ==
    LET params == [model |-> config.model,
                   temperature |-> IF TruthyNum(request.temperature)
                                   THEN request.temperature[1] ELSE config.temperature,
                   max_tokens |-> IF TruthyNum(request.max_tokens)
                                  THEN request.max_tokens[1] ELSE config.max_tokens]
    IN  IF request.images # None
        THEN [do |-> "vision_completion", messages |-> request.messages,
              images |-> request.images[1], params |-> params]
        ELSE IF request.stream
        THEN [do |-> "raise", exc |-> Exc("NotImplementedError", "Streaming not yet implemented")]
        ELSE [do |-> "chat_completion", messages |-> request.messages,
              images |-> <<>>, params |-> params]

\* FallbackStrategy._execute_request: the adapter method it calls with its
\* arguments, or the exception it raises itself
execute_request(request, config) ==
    LET params == [model |-> config.model,
                   temperature |-> IF TruthyNum(request.temperature)
                                   THEN request.temperature[1] ELSE config.temperature,
                   max_tokens |-> IF TruthyNum(request.max_tokens)
                                  THEN request.max_tokens[1] ELSE config.max_tokens]
    IN  IF TruthyList(request.images)
        THEN [do |-> "vision_completion", messages |-> request.messages,
              images |-> request.images[1], params |-> params]
        ELSE IF request.stream
        THEN [do |-> "raise", exc |-> Exc("NotImplementedError", "Streaming not yet implemented")]
        ELSE [do |-> "chat_completion", messages |-> request.messages,
              images |-> <<>>, params |-> params]

\* The locals of execute(): attempted_providers, last_error; invoked is the
\* record of the adapter calls made so far.
Locals(attempted_providers, last_error, invoked) ==
    [attempted_providers |-> attempted_providers, last_error |-> last_error,
     invoked |-> invoked]

\* execute, both except clauses: the locals after a candidate has failed
after_failure(loc, config, e) ==
    Locals(Append(loc.attempted_providers, config.provider), Some(e), loc.invoked)

\* Mutant of already_attempted: a provider that failed is tried again.
already_attempted_never(config, attempted_providers) == FALSE

\* execute: if config.provider.value in attempted_providers
already_attempted(config, attempted_providers) ==
    InList(config.provider, attempted_providers)

\* execute: the for loop from candidate i up to the next adapter call (the
\* next await), or to the end of the list.  idx = Len(configs) + 1: exhausted.
RECURSIVE execute_loop(_, _, _, _, _)
execute_loop(configs, i, request, provider_registry, loc) ==
    IF i > Len(configs) THEN [idx |-> i, loc |-> loc]
    ELSE LET config == configs[i]
             call == execute_request(request, config)
         IN  IF config.provider \notin provider_registry
             THEN execute_loop(configs, i + 1, request, provider_registry, loc)
             ELSE IF already_attempted(config, loc.attempted_providers)
             THEN execute_loop(configs, i + 1, request, provider_registry, loc)
             ELSE IF call.do = "raise"
             THEN execute_loop(configs, i + 1, request, provider_registry,
                               after_failure(loc, config, call.exc))
             ELSE [idx |-> i,
                   loc |-> Locals(loc.attempted_providers, loc.last_error,
                                  Append(loc.invoked,
                                         [idx |-> i, provider |-> config.provider,
                                          method |-> call.do, messages |-> call.messages,
                                          images |-> call.images, params |-> call.params,
                                          outcome |-> "pending"]))]

\* execute: the exception raised when the loop ends
exhausted_error(loc) ==
    Exc("ProviderUnavailableError",
        "All providers exhausted. Last error: " \o StrOpt(loc.last_error))

\* Mutant of execute_catches: only quota errors advance to the next candidate.
execute_catches_quota_only(e) == "QuotaExceededError" \in Bases(e.type)

\* execute: except QuotaExceededError / except Exception
execute_catches(e) ==
    "QuotaExceededError" \in Bases(e.type) \/ "Exception" \in Bases(e.type)

\* Mutant of fallback_used: the comparison inverted.
fallback_used_inverted(config, primary_config) == config = primary_config

\* Mutant of fallback_used: the flag set on every response.
fallback_used_always(config, primary_config) == TRUE

\* execute: response.fallback_used = (config != primary_config)
fallback_used(config, primary_config) == config # primary_config

----------------------------------------------------------------------------
(* core/manager.py: ModelManager.complete *)

\* complete: the circuit-breaker filter of the fallback chain, one
\* is_available call per entry, in order; the chain kept and the breaker after
RECURSIVE filter_available(_, _, _, _, _)
filter_available(chain, i, b, current_time, kept) ==
    IF i > Len(chain) THEN [chain |-> kept, breaker |-> b]
    ELSE filter_available(chain, i + 1,
                          is_available_effect(b, chain[i].provider, current_time),
                          current_time,
                          IF is_available(b, chain[i].provider, current_time)
                          THEN Append(kept, chain[i]) ELSE kept)

\* Mutant of available_chain: an empty filtered chain is kept empty.
available_chain_no_reset(fallback_chain, b, current_time) ==
    filter_available(fallback_chain, 1, b, current_time, <<>>).chain

\* complete: available_chain, with the reset when it is empty
available_chain(fallback_chain, b, current_time) ==
    LET f == filter_available(fallback_chain, 1, b, current_time, <<>>)
    IN  IF Len(f.chain) = 0 THEN fallback_chain ELSE f.chain

\* Mutant of complete_catches: only quota errors are handled.
complete_catches_quota_only(e) == "QuotaExceededError" \in Bases(e.type)

\* complete: except Exception
complete_catches(e) == "Exception" \in Bases(e.type)

\* The user-facing prefix of the error response (in the source: the Chinese
\* for "model service temporarily unavailable: ").
UnavailablePrefix == "model service temporarily unavailable: "

\* Mutant of error_response: an empty content.
error_response_empty(e, duration) ==
    ModelResponse("", "error", "none", Some(e.text), duration)

\* complete, the except block: the ModelResponse returned
error_response(e, duration) ==
    ModelResponse(UnavailablePrefix \o e.text, "error", "none", Some(e.text), duration)

\* complete, the except block: the circuit breaker afterwards
breaker_after_error(b, e, current_time) ==
    IF hasattr(e, "provider") THEN record_failure(b, e.provider, current_time) ELSE b

----------------------------------------------------------------------------
(* providers/openrouter_clean.py and providers/gemini_clean.py: the adapters. *)
(* The outcome of the HTTP request is the record http: either the exception   *)
(* client.post raised, or the response with its status_code, its text and    *)
(* what response.json() gives (None: the body is not JSON).  The result of a *)
(* method is a return with its value or a raise with its exception.          *)

Return(value) == [kind |-> "return", value |-> value]
Raise(exc) == [kind |-> "raise", exc |-> exc]

\* await self.client.post(...) raising
HttpError(exc) == [kind |-> "error", exc |-> exc]
\* await self.client.post(...) returning a response
HttpResponse(status_code, text, json) ==
    [kind |-> "response", status_code |-> status_code, text |-> text, json |-> json]

\* The usage dict of the ModelResponse an adapter builds
Usage(prompt_tokens, completion_tokens, total_tokens) ==
    [prompt_tokens |-> prompt_tokens, completion_tokens |-> completion_tokens,
     total_tokens |-> total_tokens]

\* The ModelResponse an adapter returns
AdapterResponse(content, name, model, usage) ==
    [ModelResponse(content, name, model, None, 0) EXCEPT !.usage = usage]

\* CleanOpenRouterProvider.chat_completion: the body of the try statement
openrouter_try_body(http, model) ==
    IF http.kind = "error" THEN Raise(http.exc)
    ELSE IF http.status_code = 429
    THEN Raise(Exc("QuotaExceededError", "OpenRouter quota exceeded for model " \o model))
    ELSE IF http.status_code # 200
    THEN Raise(Exc("ProviderUnavailableError",
                   "OpenRouter API error: " \o ToString(http.status_code) \o " - " \o http.text))
    ELSE IF http.json = None
    THEN Raise(Exc("JSONDecodeError", "Expecting value: line 1 column 1 (char 0)"))
    ELSE LET data == http.json[1]
             usage == Get(data, "usage", EmptyDict)
         IN  IF "choices" \notin DOMAIN data THEN Raise(Exc("KeyError", "'choices'"))
             ELSE IF Len(data["choices"]) = 0
             THEN Raise(Exc("IndexError", "list index out of range"))
             ELSE Return(AdapterResponse(data["choices"][1]["message"]["content"],
                                         "openrouter", model,
                                         Usage(Get(usage, "prompt_tokens", 0),
                                               Get(usage, "completion_tokens", 0),
                                               Get(usage, "total_tokens", 0))))

\* CleanOpenRouterProvider.chat_completion: the try statement with its two
\* except clauses
openrouter_chat_completion(http, model) ==
    LET r == openrouter_try_body(http, model)
    IN  IF r.kind = "raise" /\ "RequestError" \in Bases(r.exc.type)
        THEN Raise(Exc("ProviderUnavailableError", "OpenRouter network error: " \o r.exc.text))
        ELSE IF r.kind = "raise" /\ "JSONDecodeError" \in Bases(r.exc.type)
        THEN Raise(Exc("ProviderUnavailableError",
                       "OpenRouter response parsing error: " \o r.exc.text))
        ELSE r

\* CleanOpenRouterProvider.vision_completion: chat_completion with the images
\* put into the messages
openrouter_vision_completion(http, model) == openrouter_chat_completion(http, model)

\* The texts _extract_content_from_candidate returns in place of a content
\* (in the source: Chinese sentences)
TruncatedText == "response truncated (max token limit reached)"
BlockedText == "response blocked by the safety filter"
EmptyText == "API response is empty"

\* CleanGeminiProvider._extract_content_from_candidate
extract_content_from_candidate(candidate) ==
    LET finish_reason == Get(candidate, "finishReason", "UNKNOWN")
    IN  IF "content" \notin DOMAIN candidate
        THEN IF finish_reason = "MAX_TOKENS" THEN Return(TruncatedText)
             ELSE IF finish_reason = "SAFETY" THEN Return(BlockedText)
             ELSE Raise(Exc("ProviderUnavailableError",
                            "No content in Gemini candidate, finish reason: " \o finish_reason))
        ELSE LET content_obj == candidate["content"]
             IN  IF /\ "parts" \in DOMAIN content_obj
                    /\ Len(content_obj["parts"]) > 0
                    /\ "text" \in DOMAIN content_obj["parts"][1]
                 THEN Return(content_obj["parts"][1]["text"])
                 ELSE IF "text" \in DOMAIN content_obj THEN Return(content_obj["text"])
                 ELSE IF DOMAIN content_obj = {"role"}
                 THEN IF finish_reason = "MAX_TOKENS" THEN Return(TruncatedText)
                      ELSE IF finish_reason = "SAFETY" THEN Return(BlockedText)
                      ELSE Return(EmptyText)
                 ELSE Raise(Exc("ProviderUnavailableError",
                                "cannot parse the Gemini response format"))

\* CleanGeminiProvider.chat_completion and vision_completion: the body of the
\* try statement, the same in both methods
gemini_try_body(http, model) ==
    IF http.kind = "error" THEN Raise(http.exc)
    ELSE IF http.status_code = 429
    THEN Raise(Exc("QuotaExceededError", "Gemini quota exceeded for model " \o model))
    ELSE IF http.status_code # 200
    THEN Raise(Exc("ProviderUnavailableError",
                   "Gemini API error: " \o ToString(http.status_code) \o " - " \o http.text))
    ELSE IF http.json = None
    THEN Raise(Exc("JSONDecodeError", "Expecting value: line 1 column 1 (char 0)"))
    ELSE LET data == http.json[1]
             usage_metadata == Get(data, "usageMetadata", EmptyDict)
         IN  IF "candidates" \notin DOMAIN data \/ Len(data["candidates"]) = 0
             THEN Raise(Exc("ProviderUnavailableError", "No candidates in Gemini response"))
             ELSE LET content == extract_content_from_candidate(data["candidates"][1])
                  IN  IF content.kind = "raise" THEN content
                      ELSE Return(AdapterResponse(content.value, "gemini", model,
                                      Usage(Get(usage_metadata, "promptTokenCount", 0),
                                            Get(usage_metadata, "candidatesTokenCount", 0),
                                            Get(usage_metadata, "totalTokenCount", 0))))

\* CleanGeminiProvider.chat_completion: the try statement with its two except
\* clauses
gemini_chat_completion(http, model) ==
    LET r == gemini_try_body(http, model)
    IN  IF r.kind = "raise" /\ "RequestError" \in Bases(r.exc.type)
        THEN Raise(Exc("ProviderUnavailableError", "Gemini network error: " \o r.exc.text))
        ELSE IF r.kind = "raise" /\ "JSONDecodeError" \in Bases(r.exc.type)
        THEN Raise(Exc("ProviderUnavailableError",
                       "Gemini response parsing error: " \o r.exc.text))
        ELSE r

\* CleanGeminiProvider.vision_completion: the try statement with its
\* except Exception clause
gemini_vision_completion(http, model) ==
    LET r == gemini_try_body(http, model)
    IN  IF r.kind = "raise" /\ "Exception" \in Bases(r.exc.type)
        THEN Raise(Exc("ProviderUnavailableError",
                       "Gemini vision completion error: " \o r.exc.text))
        ELSE r

\* The adapters that are in the repository, and their methods
Adapters == {"openrouter", "gemini"}
Methods == {"chat_completion", "vision_completion"}

\* adapter.method(...) for the outcome http of its HTTP request
adapter_result(adapter, method, http, model) ==
    CASE adapter = "openrouter" /\ method = "chat_completion" ->
           openrouter_chat_completion(http, model)
      [] adapter = "openrouter" /\ method = "vision_completion" ->
           openrouter_vision_completion(http, model)
      [] adapter = "gemini" /\ method = "chat_completion" ->
           gemini_chat_completion(http, model)
      [] adapter = "gemini" /\ method = "vision_completion" ->
           gemini_vision_completion(http, model)

(* What the vendor can answer *)

\* d with d[k] = v[1] when the Optional v is set
WithKey(d, k, v) == IF v = None THEN d ELSE Put(d, k, v[1])

\* The token counts a vendor reports: none, an empty object, prompt and
\* completion counts without a total, and all three
TokenCounts == { None, Some(<<>>), Some(<<5, 2>>), Some(<<5, 2, 7>>) }

\* The usage object of an OpenRouter body
OpenRouterUsage(t) ==
    IF t = None THEN None
    ELSE IF Len(t[1]) = 0 THEN Some(EmptyDict)
    ELSE IF Len(t[1]) = 2
    THEN Some([prompt_tokens |-> t[1][1], completion_tokens |-> t[1][2]])
    ELSE Some([prompt_tokens |-> t[1][1], completion_tokens |-> t[1][2],
               total_tokens |-> t[1][3]])

\* The usageMetadata object of a Gemini body
GeminiUsage(t) ==
    IF t = None THEN None
    ELSE IF Len(t[1]) = 0 THEN Some(EmptyDict)
    ELSE IF Len(t[1]) = 2
    THEN Some([promptTokenCount |-> t[1][1], candidatesTokenCount |-> t[1][2]])
    ELSE Some([promptTokenCount |-> t[1][1], candidatesTokenCount |-> t[1][2],
               totalTokenCount |-> t[1][3]])

\* The choices of an OpenRouter body: none, an empty list, one choice
OpenRouterChoices ==
    { None, Some(<<>>), Some(<< [message |-> [role |-> "assistant", content |-> "hello"]] >>) }

\* The candidates of a Gemini body: none, an empty list, one candidate in each
\* of the forms _extract_content_from_candidate tells apart
GeminiCandidates ==
    { None, Some(<<>>) } \cup
    { Some(<<cand>>) : cand \in
        { [content |-> [parts |-> << [text |-> "hello"] >>, role |-> "model"],
           finishReason |-> "STOP"],
          [content |-> [text |-> "hello"]],
          [content |-> [role |-> "model"], finishReason |-> "MAX_TOKENS"],
          [content |-> [role |-> "model"]],
          [content |-> [parts |-> <<>>, role |-> "model"], finishReason |-> "STOP"],
          [finishReason |-> "SAFETY"],
          [finishReason |-> "STOP"] } }

\* The outcomes of the HTTP request other than a 200 response with a JSON object
HttpFailures ==
    { HttpError(Exc("ConnectError", "All connection attempts failed")),
      HttpError(Exc("ReadTimeout", "timed out")),
      HttpResponse(429, "rate limited", None),
      HttpResponse(500, "internal error", None),
      HttpResponse(200, "<html>", None) }

\* The outcomes of the HTTP request of an adapter
HttpOutcomes(adapter) ==
    HttpFailures \cup
    IF adapter = "openrouter"
    THEN { HttpResponse(200, "{..}",
                        Some(WithKey(WithKey(EmptyDict, "choices", ch),
                                     "usage", OpenRouterUsage(t)))) :
             ch \in OpenRouterChoices, t \in TokenCounts }
    ELSE { HttpResponse(200, "{..}",
                        Some(WithKey(WithKey(EmptyDict, "candidates", ca),
                                     "usageMetadata", GeminiUsage(t)))) :
             ca \in GeminiCandidates, t \in TokenCounts }

\* The model each adapter is called with (its first entry in the QA and OCR chains)
ModelInputs == [a \in Adapters |->
                  IF a = "openrouter" THEN "x-ai/grok-4-fast:free" ELSE "gemini-2.5-flash"]

\* The caller's messages: heap holds the message dicts by object identity, a
\* list of messages is a sequence of identities.  The messages as the caller
\* reads them:
Deref(heap, messages) == [i \in 1..Len(messages) |-> heap[messages[i]]]

\* The positions of a list that hold a message the adapter treats as the user's
UserPositions(heap, messages, user_roles) ==
    { i \in 1..Len(messages) : heap[messages[i]].role \in user_roles }

Max(S) == CHOOSE x \in S : \A y \in S : y <= x
Min(S) == CHOOSE x \in S : \A y \in S : x <= y

\* The note the default vision_completion appends (" [N images attached]")
ImagesNote(images) == " [attached " \o ToString(Len(images)) \o " images]"

\* ModelProvider._add_images_to_messages: the heap after it and the list it
\* returns.  messages.copy() is a new list of the same dicts, and += on the
\* content of one of them changes the dict the caller holds.
add_images_to_messages(heap, messages, images) ==
    IF Len(images) = 0 THEN [heap |-> heap, enhanced |-> messages]
    ELSE LET enhanced_messages == messages
             users == UserPositions(heap, enhanced_messages, {"user"})
         IN  IF users = {} THEN [heap |-> heap, enhanced |-> enhanced_messages]
             ELSE LET last_user_msg == Max(users)
                      id == enhanced_messages[last_user_msg]
                  IN  [heap |-> [heap EXCEPT ![id].content = @ \o ImagesNote(images)],
                       enhanced |-> enhanced_messages]

\* CleanOpenRouterProvider._format_vision_messages: a new list; the first user
\* message is replaced by a new dict with the text and the images
openrouter_format_vision_messages(heap, messages, images) ==
    LET users == UserPositions(heap, messages, {"user"})
        first == IF users = {} \/ Len(images) = 0 THEN 0 ELSE Min(users)
    IN  [i \in 1..Len(messages) |->
           IF i = first
           THEN [role |-> "user",
                 content |-> << [type |-> "text", text |-> heap[messages[i]].content] >> \o
                             [j \in 1..Len(images) |->
                                [type |-> "image_url",
                                 url |-> "data:image/jpeg;base64," \o images[j]]]]
           ELSE heap[messages[i]]]

\* CleanGeminiProvider._convert_to_gemini_format and _format_vision_messages
\* (without images the two build the same list): a new list of new dicts
gemini_format_vision_messages(heap, messages, images) ==
    LET users == UserPositions(heap, messages, {"user", "system"})
        first == IF users = {} \/ Len(images) = 0 THEN 0 ELSE Min(users)
    IN  [i \in 1..Len(messages) |->
           LET message == heap[messages[i]]
               content == IF message.role = "system"
                          THEN "Instructions: " \o message.content ELSE message.content
           IN  [role |-> IF message.role = "assistant" THEN "model" ELSE "user",
                parts |-> << [text |-> content] >> \o
                          IF i = first
                          THEN [j \in 1..Len(images) |->
                                  [mime_type |-> "image/jpeg", data |-> images[j]]]
                          ELSE <<>>]]

\* The messages an adapter method puts in its payload
payload_messages(adapter, method, heap, messages, images) ==
    CASE adapter = "openrouter" /\ method = "chat_completion" -> Deref(heap, messages)
      [] adapter = "openrouter" /\ method = "vision_completion" ->
           openrouter_format_vision_messages(heap, messages, images)
      [] adapter = "gemini" /\ method = "chat_completion" ->
           gemini_format_vision_messages(heap, messages, <<>>)
      [] adapter = "gemini" /\ method = "vision_completion" ->
           gemini_format_vision_messages(heap, messages, images)

\* The message dicts the caller holds, and the lists it passes
MessageHeap ==
    << [role |-> "user", content |-> "hi"],
       [role |-> "assistant", content |-> "hello"],
       [role |-> "system", content |-> "be brief"] >>
MessageLists == { << 1 >>, << 3, 1 >>, << 1, 2 >>, << 2 >> }
ImageLists == { <<>>, << "img1" >> }

\* The most notes the default vision_completion appends to one message
MaxNotes == 2

\* The images a method is called with
ImagesOf(method) == IF method = "vision_completion" THEN ImageLists ELSE { <<>> }

\* No adapter method has been called
IdleExchange ==
    [pc |-> "idle", adapter |-> "", method |-> "", model |-> "",
     http |-> None, result |-> None,
     heap |-> MessageHeap, messages |-> <<>>, given |-> <<>>, payload |-> <<>>]

\* adapter.method(messages, model, ...) up to await self.client.post(...).
\* given is what the caller's messages read when the method was called.
Post(adapter, method, model, messages, images) ==
    /\ exchange.pc \in {"idle", "done", "delegated"}
    /\ exchange' = [pc |-> "posted", adapter |-> adapter, method |-> method,
                    model |-> model, http |-> None, result |-> None,
                    heap |-> exchange.heap, messages |-> messages,
                    given |-> Deref(exchange.heap, messages),
                    payload |-> payload_messages(adapter, method, exchange.heap,
                                                 messages, images)]
    /\ UNCHANGED <<now, breaker_vars, manager_vars>>

\* ModelProvider.vision_completion, the default an adapter inherits, up to
\* await self.chat_completion(enhanced_messages, model, **kwargs), which is
\* the subclass's
BaseVisionCompletion(messages, images, model) ==
    /\ exchange.pc \in {"idle", "done", "delegated"}
    /\ \A id \in 1..Len(MessageHeap) :
         Len(exchange.heap[id].content) <
           Len(MessageHeap[id].content) + MaxNotes * Len(ImagesNote(images))
    /\ LET r == add_images_to_messages(exchange.heap, messages, images)
       IN  exchange' = [pc |-> "delegated", adapter |-> "base",
                        method |-> "vision_completion",
                        model |-> model, http |-> None, result |-> None,
                        heap |-> r.heap, messages |-> messages,
                        given |-> Deref(exchange.heap, messages),
                        payload |-> Deref(r.heap, r.enhanced)]
    /\ UNCHANGED <<now, breaker_vars, manager_vars>>

\* The HTTP request ends with outcome http: the rest of the method
HttpEnds(http) ==
    /\ exchange.pc = "posted"
    /\ http \in HttpOutcomes(exchange.adapter)
    /\ exchange' = [exchange EXCEPT
                      !.pc = "done", !.http = Some(http),
                      !.result = Some(adapter_result(exchange.adapter, exchange.method,
                                                     http, exchange.model))]
    /\ UNCHANGED <<now, breaker_vars, manager_vars>>

----------------------------------------------------------------------------
(* The inputs *)

\* The environments the process starts in
EnvChoices ==
    { EmptyDict,
      [x \in {"QA_SERVICE_MODEL"} |-> "gpt-4o-mini"] }

MessageInputs == { << [role |-> "user", content |-> "hi"] >> }
ContentInputs == { "hello" }

\* What an adapter raises: QuotaExceededError, ProviderUnavailableError, or
\* another exception (a 200 response without the expected fields)
AdapterErrors ==
    { Exc("QuotaExceededError", "quota exceeded"),
      Exc("ProviderUnavailableError", "network error"),
      Exc("KeyError", "'choices'") }

\* The requests made: a chat request for every service type, requests with
\* images, a request with an empty list of images, and streaming requests
RequestInputs ==
    [service_type : ServiceTypes, images : {None}, stream : {FALSE}]
    \cup [service_type : {"qa", "ocr"}, images : {Some(<< "img1" >>)}, stream : {FALSE}]
    \cup [service_type : {"qa"}, images : {Some(<<>>)}, stream : {FALSE}]
    \cup [service_type : {"qa"}, images : {None}, stream : {TRUE}]
    \cup [service_type : {"ocr"}, images : {Some(<< "img1" >>)}, stream : {TRUE}]


\* The service types with a compiled-in configuration
ConfiguredTypes == {"qa", "finance", "ocr"}

\* The compiled-in configurations: _DEFAULT_CONFIGS and the fallback chains of
\* an environment that sets none of the backup model variables
CompiledConfigs ==
    { DEFAULT_CONFIGS[st] : st \in ConfiguredTypes } \cup
    UNION { { get_fallback_configs(EmptyDict)[st][i] : i \in 1..3 } : st \in ConfiguredTypes }

\* The model names that appear in them
CompiledModelNames == { config.model : config \in CompiledConfigs }

\* The providers the compiled-in configurations declare for a model name
DeclaredProviders(model) ==
    { config.provider : config \in { k \in CompiledConfigs : k.model = model } }

\* <SERVICE>_SERVICE_MODEL
ModelVariable(service_type) == Upper(service_type) \o "_SERVICE_MODEL"

\* The environments that set one service's model override to a compiled-in name
OverrideEnvs ==
    { [x \in {ModelVariable(st)} |-> name] : st \in ConfiguredTypes, name \in CompiledModelNames }

\* get_primary_config for each environment and service type, computed once
PrimaryConfigOf ==
    [e \in EnvChoices \cup OverrideEnvs |->
       [st \in ServiceTypes |-> get_primary_config(e, st)]]

----------------------------------------------------------------------------
(* The complete() calls.  A call is suspended only at an adapter call (the   *)
(* await in _execute_request); everything between two awaits is one step.    *)

\* The calls that can be in progress
Calls == {1, 2}
\* The call of a manager that serves one request at a time
OneCall == {1}

\* The most complete() calls that return a provider's response.
MaxRequests == 1

NoRequest == ModelRequest(<<>>, "", None, FALSE, None, None, None)
NoConfig == ModelConfig("", "", "", 0, 0, 0)

\* A call that has not started
IdleCall ==
    [pc |-> "idle", request |-> NoRequest, primary_config |-> NoConfig,
     configs_to_try |-> <<>>, idx |-> 0, loc |-> Locals(<<>>, None, <<>>),
     start_time |-> 0, outcome |-> "none", response |-> None, raised |-> None]

\* complete: the call and the breaker once exception e reaches the except block
complete_except(k, e, b, current_time) ==
    IF complete_catches(e)
    THEN [call |-> [k EXCEPT !.pc = "done", !.outcome = "returned",
                             !.response = Some(error_response(e, current_time - k.start_time))],
          breaker |-> breaker_after_error(b, e, current_time)]
    ELSE [call |-> [k EXCEPT !.pc = "done", !.outcome = "raised", !.raised = Some(e)],
          breaker |-> b]

\* execute from candidate i on, up to the next await or to the end of complete()
run_execute(k, i, loc, b, current_time) ==
    LET r == execute_loop(k.configs_to_try, i, k.request, providers, loc)
        k1 == [k EXCEPT !.idx = r.idx, !.loc = r.loc]
    IN  IF r.idx > Len(k.configs_to_try)
        THEN complete_except(k1, exhausted_error(r.loc), b, current_time)
        ELSE [call |-> [k1 EXCEPT !.pc = "awaiting"], breaker |-> b]

\* register_provider(name, provider).  The providers are registered when the
\* manager is set up (create_default_manager), before the first complete().
RegisterProvider(name) ==
    /\ \A c \in Calls : calls[c].pc = "idle"
    /\ name \notin providers
    /\ providers' = providers \cup {name}
    /\ UNCHANGED <<now, breaker_vars, env, FALLBACK_CONFIGS, request_count, total_duration, calls, exchange>>

\* complete(service_type, messages, images, stream, **override_params), up to
\* the first adapter call
StartCall(c, service_type, messages, images, stream, temperature, max_tokens, timeout) ==
    /\ calls[c].pc \in {"idle", "done"}
    /\ request_count < MaxRequests
    /\ LET request == ModelRequest(messages, service_type, images, stream,
                                   temperature, max_tokens, timeout)
           primary_config == PrimaryConfigOf[env][service_type]
           fallback_chain == get_fallback_chain(FALLBACK_CONFIGS, env, service_type)
           filtered == filter_available(fallback_chain, 1, TheBreaker, now, <<>>)
           chain == available_chain(fallback_chain, TheBreaker, now)
           k == [IdleCall EXCEPT !.request = request, !.primary_config = primary_config,
                                 !.configs_to_try = <<primary_config>> \o chain,
                                 !.start_time = now]
           r == run_execute(k, 1, k.loc, filtered.breaker, now)
       IN  /\ calls' = [calls EXCEPT ![c] = r.call]
           /\ SetBreaker(r.breaker)
    /\ FALLBACK_CONFIGS' = fallback_cache_after(FALLBACK_CONFIGS, env)
    /\ UNCHANGED <<now, probe, providers, env, request_count, total_duration, exchange>>

\* Mutant of Settled: the adapter call is not waited for, it stays in flight.
SettledStillPending(loc, outcome) == loc

\* The invocation record of the adapter call in progress, with its outcome set
Settled(loc, outcome) ==
    Locals(loc.attempted_providers, loc.last_error,
           [loc.invoked EXCEPT ![Len(loc.invoked)].outcome = outcome])

\* Mutant of AdapterSucceeds: execute does not return on the first success, it
\* goes on with the next candidate.
AdapterSucceedsNoReturn(c, content) ==
    /\ calls[c].pc = "awaiting"
    /\ LET k == calls[c]
           r == run_execute(k, k.idx + 1, Settled(k.loc, "ok"), TheBreaker, now)
       IN  /\ calls' = [calls EXCEPT ![c] = r.call]
           /\ SetBreaker(r.breaker)
    /\ UNCHANGED <<now, probe, providers, env, FALLBACK_CONFIGS, request_count, total_duration, exchange>>

\* Mutant of AdapterSucceeds: the duration is not added to the total.
AdapterSucceedsNoDuration(c, content) ==
    /\ calls[c].pc = "awaiting"
    /\ LET k == calls[c]
           config == k.configs_to_try[k.idx]
           call == k.loc.invoked[Len(k.loc.invoked)]
           duration == now - k.start_time
           response == [ModelResponse(content, config.provider, call.params.model, None, duration)
                          EXCEPT !.fallback_used = fallback_used(config, k.primary_config)]
       IN  /\ calls' = [calls EXCEPT ![c] =
                          [k EXCEPT !.pc = "done", !.outcome = "returned",
                                    !.loc = Settled(k.loc, "ok"),
                                    !.response = Some(response)]]
           /\ SetBreaker(record_success(TheBreaker, response.provider))
           /\ request_count' = request_count + 1
           /\ total_duration' = total_duration
    /\ UNCHANGED <<now, probe, providers, env, FALLBACK_CONFIGS, exchange>>

\* The adapter call of c returns a ModelResponse: execute returns it, complete
\* records the success and returns
AdapterSucceeds(c, content) ==
    /\ calls[c].pc = "awaiting"
    /\ LET k == calls[c]
           config == k.configs_to_try[k.idx]
           call == k.loc.invoked[Len(k.loc.invoked)]
           duration == now - k.start_time
           response == [ModelResponse(content, config.provider, call.params.model, None, duration)
                          EXCEPT !.fallback_used = fallback_used(config, k.primary_config)]
       IN  /\ calls' = [calls EXCEPT ![c] =
                          [k EXCEPT !.pc = "done", !.outcome = "returned",
                                    !.loc = Settled(k.loc, "ok"),
                                    !.response = Some(response)]]
           /\ SetBreaker(record_success(TheBreaker, response.provider))
           /\ request_count' = request_count + 1
           /\ total_duration' = total_duration + duration
    /\ UNCHANGED <<now, probe, providers, env, FALLBACK_CONFIGS, exchange>>

\* The adapter call of c raises e: execute goes on with the next candidate, or
\* complete ends
AdapterFails(c, e) ==
    /\ calls[c].pc = "awaiting"
    /\ LET k == calls[c]
           config == k.configs_to_try[k.idx]
           loc == Settled(k.loc, e.type)
           r == IF execute_catches(e)
                THEN run_execute(k, k.idx + 1, after_failure(loc, config, e), TheBreaker, now)
                ELSE complete_except([k EXCEPT !.loc = loc], e, TheBreaker, now)
       IN  /\ calls' = [calls EXCEPT ![c] = r.call]
           /\ SetBreaker(r.breaker)
    /\ UNCHANGED <<now, probe, providers, env, FALLBACK_CONFIGS, request_count, total_duration, exchange>>

Init ==
    /\ now = 0
    /\ failure_counts = EmptyDict
    /\ last_failure_times = EmptyDict
    /\ probe = [op |-> "none", provider |-> "", answer |-> FALSE, prior |-> 0, run |-> 0]
    /\ providers = {}
    /\ env \in EnvChoices
    /\ FALLBACK_CONFIGS = None
    /\ request_count = 0
    /\ total_duration = 0
    /\ calls = [c \in Calls |-> IdleCall]
    /\ exchange = IdleExchange

\* The circuit breaker alone
BreakerNext ==
    \/ \E p \in Providers : IsAvailableCall(p)
    \/ \E p \in Providers : RecordFailureCall(p)
    \/ \E p \in Providers : RecordSuccessCall(p)
    \/ Tick

\* The circuit breaker of a manager in the default environment
BreakerInit == Init /\ env = EmptyDict

BreakerSpec == BreakerInit /\ [][BreakerNext]_vars

Next ==
    \/ \E name \in Providers : RegisterProvider(name)
    \/ \E c \in OneCall, r \in RequestInputs, m \in MessageInputs :
         StartCall(c, r.service_type, m, r.images, r.stream, None, None, None)
    \/ \E c \in OneCall, content \in ContentInputs : AdapterSucceeds(c, content)
    \/ \E c \in OneCall, e \in AdapterErrors : AdapterFails(c, e)
    \/ Tick

Spec == Init /\ [][Next]_vars

----------------------------------------------------------------------------
(* The manager with circuits that have failures on record.  complete() never *)
(* reaches record_failure itself, so the failures are reported by the code   *)
(* that owns the manager, through manager.circuit_breaker.                   *)

\* manager.circuit_breaker.record_failure(p), called while no complete() is
\* in progress.  The failures are reported provider by provider: those of one
\* provider up to the threshold before those of the next.
DirectFailure(p) ==
    /\ \A c \in Calls : calls[c].pc = "idle"
    /\ Get(failure_counts, p, 0) < failure_threshold
    /\ \A q \in Providers \ {p} : Get(failure_counts, q, 0) \in {0, failure_threshold}
    /\ RecordFailureCall(p)

\* The requests made of the manager whose circuits have failures on record
CircuitRequests ==
    [service_type : {"qa"}, images : {None}, stream : {FALSE}]

\* What an adapter raises there
CircuitErrors ==
    { Exc("QuotaExceededError", "quota exceeded"),
      Exc("ProviderUnavailableError", "network error") }

CircuitInit == Init /\ env = EmptyDict

CircuitNext ==
    \/ \E name \in Providers : RegisterProvider(name)
    \/ \E p \in Providers : DirectFailure(p)
    \/ \E c \in OneCall, r \in CircuitRequests, m \in MessageInputs :
         StartCall(c, r.service_type, m, r.images, r.stream, None, None, None)
    \/ \E c \in OneCall, content \in ContentInputs : AdapterSucceeds(c, content)
    \/ \E c \in OneCall, e \in CircuitErrors : AdapterFails(c, e)
    \/ Tick

CircuitSpec == CircuitInit /\ [][CircuitNext]_vars

----------------------------------------------------------------------------
(* Several complete() calls in progress on one manager: the event loop runs  *)
(* one task at a time and switches at the adapter awaits only, so each step  *)
(* of a call, and each CircuitBreaker method called by another task, is      *)
(* atomic.                                                                   *)

\* The providers whose failures another task reports
FailingProviders == {"gemini"}

\* circuit_breaker.record_failure(p) called by another task while complete()
\* calls are in progress, until p's circuit is open
TaskFailure(p) ==
    /\ Get(failure_counts, p, 0) < failure_threshold
    /\ RecordFailureCall(p)

\* What an adapter raises there
ConcurrentErrors == { Exc("ProviderUnavailableError", "network error") }

ConcurrentInit == Init /\ env = EmptyDict

ConcurrentNext ==
    \/ \E name \in Providers : RegisterProvider(name)
    \/ \E p \in FailingProviders : TaskFailure(p)
    \/ \E c \in Calls, r \in CircuitRequests, m \in MessageInputs :
         StartCall(c, r.service_type, m, r.images, r.stream, None, None, None)
    \/ \E c \in Calls, content \in ContentInputs : AdapterSucceeds(c, content)
    \/ \E c \in Calls, e \in ConcurrentErrors : AdapterFails(c, e)
    \/ Tick

ConcurrentSpec == ConcurrentInit /\ [][ConcurrentNext]_vars

----------------------------------------------------------------------------
(* complete() called with override parameters *)

\* The timeout the adapters' HTTP client is built with
client_timeout == 30

\* The timeout in force for self.client.post(url, json=payload) of an adapter
\* called with **params: post is given no timeout, so the client's applies.
post_timeout(params) == client_timeout

\* override_params of complete()
TemperatureOverrides == {None, Some(0), Some(7)}
MaxTokensOverrides == {None, Some(0), Some(100)}
TimeoutOverrides == {None, Some(5)}

OverrideInit == Init /\ env = EmptyDict

OverrideNext ==
    \/ \E name \in Providers : RegisterProvider(name)
    \/ \E c \in OneCall, r \in CircuitRequests, m \in MessageInputs :
         \E temperature \in TemperatureOverrides, max_tokens \in MaxTokensOverrides,
            timeout \in TimeoutOverrides :
           StartCall(c, r.service_type, m, r.images, r.stream, temperature, max_tokens, timeout)
    \/ \E c \in OneCall, content \in ContentInputs : AdapterSucceeds(c, content)
    \/ \E c \in OneCall, e \in CircuitErrors : AdapterFails(c, e)
    \/ Tick

OverrideSpec == OverrideInit /\ [][OverrideNext]_vars

----------------------------------------------------------------------------
(* service.py: a process that holds a ModelService instance, whose manager   *)
(* is the one of the state, and also calls the module-level qa_completion,   *)
(* which builds a manager of its own for the one request and closes it.      *)

\* The call served by the ModelService instance, and the module-level call
InstanceCalls == {1}
ModuleCalls == {2}

\* create_default_manager(): a new ModelManager, with a new CircuitBreaker and
\* zeroed statistics; the providers registered are those with an API key in
\* the environment, the same for every manager of the process.
create_default_manager(registered) ==
    [providers |-> registered, circuit_breaker |-> Breaker(EmptyDict, EmptyDict),
     request_count |-> 0, total_duration |-> 0]

\* complete() of manager mgr up to the first adapter call: the call record and
\* the manager's breaker after it
manager_complete(mgr, service_type, messages, images, stream, current_time) ==
    LET request == ModelRequest(messages, service_type, images, stream, None, None, None)
        primary_config == PrimaryConfigOf[env][service_type]
        fallback_chain == get_fallback_chain(FALLBACK_CONFIGS, env, service_type)
        filtered == filter_available(fallback_chain, 1, mgr.circuit_breaker, current_time, <<>>)
        chain == available_chain(fallback_chain, mgr.circuit_breaker, current_time)
        k == [IdleCall EXCEPT !.request = request, !.primary_config = primary_config,
                              !.configs_to_try = <<primary_config>> \o chain,
                              !.start_time = current_time]
    IN  run_execute(k, 1, k.loc, filtered.breaker, current_time)

\* service.qa_completion(messages) on the instance, one request at a time
InstanceQaCompletion(c, messages) ==
    /\ \A d \in Calls : calls[d].pc # "awaiting"
    /\ StartCall(c, "qa", messages, None, FALSE, None, None, None)

\* The module-level qa_completion(messages), up to the first adapter call:
\* create_model_service() builds its own manager, complete() runs on that
\* manager, and the instance's manager is not touched.
ModuleQaCompletion(c, messages) ==
    /\ \A d \in Calls : calls[d].pc # "awaiting"
    /\ LET mgr == create_default_manager(providers)
           r == manager_complete(mgr, "qa", messages, None, FALSE, now)
       IN  calls' = [calls EXCEPT ![c] = r.call]
    /\ FALLBACK_CONFIGS' = fallback_cache_after(FALLBACK_CONFIGS, env)
    /\ UNCHANGED <<now, breaker_vars, providers, env, request_count, total_duration, exchange>>

\* The adapter call of the module-level call c returns: its manager records
\* the success and counts the request, and `finally: await service.close()`
\* drops that manager.
ModuleAdapterSucceeds(c, content) ==
    /\ calls[c].pc = "awaiting"
    /\ LET k == calls[c]
           config == k.configs_to_try[k.idx]
           call == k.loc.invoked[Len(k.loc.invoked)]
           duration == now - k.start_time
           response == [ModelResponse(content, config.provider, call.params.model, None, duration)
                          EXCEPT !.fallback_used = fallback_used(config, k.primary_config)]
       IN  calls' = [calls EXCEPT ![c] =
                       [k EXCEPT !.pc = "done", !.outcome = "returned",
                                 !.loc = Settled(k.loc, "ok"),
                                 !.response = Some(response)]]
    /\ UNCHANGED <<now, breaker_vars, providers, env, FALLBACK_CONFIGS, request_count, total_duration, exchange>>

\* The adapter call of the module-level call c raises e
ModuleAdapterFails(c, e) ==
    /\ calls[c].pc = "awaiting"
    /\ LET k == calls[c]
           config == k.configs_to_try[k.idx]
           loc == Settled(k.loc, e.type)
           own == create_default_manager(providers).circuit_breaker
           r == IF execute_catches(e)
                THEN run_execute(k, k.idx + 1, after_failure(loc, config, e), own, now)
                ELSE complete_except([k EXCEPT !.loc = loc], e, own, now)
       IN  calls' = [calls EXCEPT ![c] = r.call]
    /\ UNCHANGED <<now, breaker_vars, providers, env, FALLBACK_CONFIGS, request_count, total_duration, exchange>>

ServiceInit == Init /\ env = EmptyDict

ServiceNext ==
    \/ \E name \in Providers : RegisterProvider(name)
    \/ \E p \in Providers : DirectFailure(p)
    \/ \E c \in InstanceCalls, m \in MessageInputs : InstanceQaCompletion(c, m)
    \/ \E c \in InstanceCalls, content \in ContentInputs : AdapterSucceeds(c, content)
    \/ \E c \in InstanceCalls, e \in CircuitErrors : AdapterFails(c, e)
    \/ \E c \in ModuleCalls, m \in MessageInputs : ModuleQaCompletion(c, m)
    \/ \E c \in ModuleCalls, content \in ContentInputs : ModuleAdapterSucceeds(c, content)
    \/ \E c \in ModuleCalls, e \in CircuitErrors : ModuleAdapterFails(c, e)

ServiceSpec == ServiceInit /\ [][ServiceNext]_vars

----------------------------------------------------------------------------
(* The manager in an environment that overrides one service's model with a   *)
(* model name of the compiled-in configuration                               *)

ConfigRequests == [service_type : ConfiguredTypes, images : {None}, stream : {FALSE}]

ConfigInit ==
    /\ now = 0
    /\ failure_counts = EmptyDict
    /\ last_failure_times = EmptyDict
    /\ probe = [op |-> "none", provider |-> "", answer |-> FALSE, prior |-> 0, run |-> 0]
    /\ providers = {}
    /\ env \in OverrideEnvs
    /\ FALLBACK_CONFIGS = None
    /\ request_count = 0
    /\ total_duration = 0
    /\ calls = [c \in Calls |-> IdleCall]
    /\ exchange = IdleExchange

ConfigNext ==
    \/ \E name \in Providers : RegisterProvider(name)
    \/ \E c \in OneCall, r \in ConfigRequests, m \in MessageInputs :
         StartCall(c, r.service_type, m, r.images, r.stream, None, None, None)
    \/ \E c \in OneCall, content \in ContentInputs : AdapterSucceeds(c, content)
    \/ \E c \in OneCall, e \in CircuitErrors : AdapterFails(c, e)

ConfigSpec == ConfigInit /\ [][ConfigNext]_vars

----------------------------------------------------------------------------
(* The adapters on their own *)

AdapterInit == Init /\ env = EmptyDict

AdapterNext ==
    \/ \E adapter \in Adapters, method \in Methods :
         \E messages \in MessageLists, images \in ImagesOf(method) :
           Post(adapter, method, ModelInputs[adapter], messages, images)
    \/ \E messages \in MessageLists, images \in ImageLists :
         BaseVisionCompletion(messages, images, ModelInputs["gemini"])
    \/ \E adapter \in Adapters : \E http \in HttpOutcomes(adapter) : HttpEnds(http)

AdapterSpec == AdapterInit /\ [][AdapterNext]_vars

----------------------------------------------------------------------------
(* What the claims speak of *)

\* The adapter calls complete() call c has made, in the order made
Invoked(c) == calls[c].loc.invoked
\* c has ended
Finished(c) == calls[c].pc = "done"
\* c has ended with the response of a provider
Won(c) ==
    /\ Finished(c)
    /\ Len(Invoked(c)) > 0
    /\ Invoked(c)[Len(Invoked(c))].outcome = "ok"
\* c has ended and no provider produced a response
TotalFailure(c) == Finished(c) /\ ~Won(c)
\* The response c returned
Response(c) == calls[c].response[1]
\* Seconds since the last recorded failure of p
Elapsed(p) == now - last_failure_times[p]
\* p's failure count, 0 when it has none
FailureCount(p) == Get(failure_counts, p, 0)
\* The answer is_available(p) gives in the current state
AvailableNow(p) == is_available(TheBreaker, p, now)
\* The last direct breaker call ended a run of at least failure_threshold
\* record_failure(p) calls
ThresholdRun(p) ==
    /\ probe.op = "record_failure"
    /\ probe.provider = p
    /\ probe.run >= failure_threshold

----------------------------------------------------------------------------
(* The claims *)

\* C1: complete() never raises: whatever the adapters do (success,
\* QuotaExceededError, ProviderUnavailableError, another exception, no provider
\* registered), a call that has ended has returned a ModelResponse, and that
\* response has error set when no provider produced a result.
C1_NeverRaises ==
    \A c \in Calls :
        /\ calls[c].outcome # "raised"
        /\ Finished(c) =>
             /\ calls[c].outcome = "returned"
             /\ calls[c].response # None
             /\ TotalFailure(c) => Response(c).error # None

\* C1 witness: a call in which an adapter raised an exception that is neither
\* QuotaExceededError nor ProviderUnavailableError, and which returned an error response.
C1_Witness ==
    \E c \in Calls :
        /\ TotalFailure(c)
        /\ \E i \in 1..Len(Invoked(c)) : Invoked(c)[i].outcome = "KeyError"
        /\ calls[c].outcome = "returned"
        /\ Response(c).error # None

\* C2 as claimed: after failure_threshold record_failure(p) calls in a row
\* is_available(p) is false, and once reset_timeout seconds have elapsed since
\* the last failure is_available(p) is true again and the count is cleared.
C2_ResetOnceTimeoutElapsed ==
    \A p \in Providers :
        /\ (ThresholdRun(p) /\ Elapsed(p) < reset_timeout) => ~AvailableNow(p)
        /\ (FailureCount(p) >= failure_threshold /\ Elapsed(p) >= reset_timeout) =>
             /\ AvailableNow(p)
             /\ p \notin DOMAIN is_available_effect(TheBreaker, p, now).failure_counts

\* C2 amended: after failure_threshold record_failure(p) calls in a row
\* is_available(p) is false for as long as no more than reset_timeout seconds
\* have elapsed since the last failure; once more than reset_timeout seconds
\* have elapsed is_available(p) is true again and clears the count, with no
\* explicit reset call.
C2_ResetAfterTimeout ==
    \A p \in Providers :
        /\ (ThresholdRun(p) /\ Elapsed(p) <= reset_timeout) => ~AvailableNow(p)
        /\ (FailureCount(p) >= failure_threshold /\ Elapsed(p) > reset_timeout) =>
             /\ AvailableNow(p)
             /\ p \notin DOMAIN is_available_effect(TheBreaker, p, now).failure_counts

\* C2 witness: failure_threshold failures in a row, then more than
\* reset_timeout seconds without any call.
C2_Witness ==
    \E p \in Providers :
        /\ ThresholdRun(p)
        /\ FailureCount(p) >= failure_threshold
        /\ Elapsed(p) > reset_timeout

\* C3: a single record_success(p), after any number of failures, leaves p
\* with no failure count and no last failure time, and is_available(p) true.
C3_SuccessClears ==
    \A p \in Providers :
        (probe.op = "record_success" /\ probe.provider = p) =>
            /\ p \notin DOMAIN failure_counts
            /\ p \notin DOMAIN last_failure_times
            /\ AvailableNow(p)

\* C3 witness: record_success on a provider whose circuit was open.
C3_Witness ==
    /\ probe.op = "record_success"
    /\ probe.prior >= failure_threshold

\* C4: the candidates are attempted in the order of [primary] + chain, and no
\* candidate is invoked after one has succeeded: every adapter call but the
\* last has failed, and a call that succeeded is the last one.
C4_InOrderStopAtSuccess ==
    \A c \in Calls :
        /\ \A i \in 1..Len(Invoked(c)) :
             /\ Invoked(c)[i].idx \in 1..Len(calls[c].configs_to_try)
             /\ Invoked(c)[i].provider = calls[c].configs_to_try[Invoked(c)[i].idx].provider
             /\ i < Len(Invoked(c)) =>
                  /\ Invoked(c)[i].idx < Invoked(c)[i + 1].idx
                  /\ Invoked(c)[i].outcome \notin {"ok", "pending"}
        /\ (Len(Invoked(c)) > 0 /\ Invoked(c)[1].outcome = "ok") => Len(Invoked(c)) = 1

\* C4 witness: a call that failed on one candidate and succeeded on a later one.
C4_Witness ==
    \E c \in Calls :
        /\ Won(c)
        /\ Len(Invoked(c)) >= 2

\* C5: no provider is attempted twice in one complete() call.
C5_AtMostOncePerProvider ==
    \A c \in Calls :
        \A i, j \in 1..Len(Invoked(c)) :
            i # j => Invoked(c)[i].provider # Invoked(c)[j].provider

\* C5 witness: the primary's provider is also in the chain, its call failed,
\* and the call went on to other candidates.
C5_Witness ==
    \E c \in Calls :
        /\ Finished(c)
        /\ Len(Invoked(c)) >= 2
        /\ Invoked(c)[1].idx = 1
        /\ \E j \in 2..Len(calls[c].configs_to_try) :
             calls[c].configs_to_try[j].provider = calls[c].primary_config.provider

\* C6: when the primary's call raises QuotaExceededError and a later candidate
\* succeeds, the response has fallback_used true, no error, and the provider
\* of the candidate that succeeded.
C6_QuotaThenFallback ==
    \A c \in Calls :
        ( /\ Won(c)
          /\ Invoked(c)[1].idx = 1
          /\ Invoked(c)[1].outcome = "QuotaExceededError" ) =>
            /\ Response(c).fallback_used
            /\ Response(c).error = None
            /\ Invoked(c)[Len(Invoked(c))].idx > 1
            /\ Response(c).provider = Invoked(c)[Len(Invoked(c))].provider

\* C6 witness: the primary raised QuotaExceededError and a fallback answered.
C6_Witness ==
    \E c \in Calls :
        /\ Won(c)
        /\ Invoked(c)[1].idx = 1
        /\ Invoked(c)[1].outcome = "QuotaExceededError"

\* C7: in a successful response fallback_used is true exactly when the
\* provider that produced it is not the provider of the primary config.
C7_FallbackUsedIffOtherProvider ==
    \A c \in Calls :
        Won(c) =>
            (Response(c).fallback_used <=>
                Response(c).provider # calls[c].primary_config.provider)

\* C7 witness: the primary config comes from the environment, its provider is
\* repeated in the chain, and a fallback of another provider answered.
C7_Witness ==
    \E c \in Calls :
        /\ Won(c)
        /\ calls[c].primary_config.oid = "env.qa"
        /\ \E j \in 2..Len(calls[c].configs_to_try) :
             calls[c].configs_to_try[j].provider = calls[c].primary_config.provider
        /\ Response(c).fallback_used

\* C8: when every candidate fails or is skipped, the response returned has
\* error set and a content that is not empty.
C8_DegradedResponse ==
    \A c \in Calls :
        TotalFailure(c) =>
            /\ calls[c].response # None
            /\ Response(c).error # None
            /\ Len(Response(c).content) > 0

\* C8 witness: three providers were called and all three failed.
C8_Witness ==
    \E c \in Calls :
        /\ TotalFailure(c)
        /\ Len(Invoked(c)) = Cardinality(Providers)

\* The messages a failing adapter call can carry
ErrorTexts == {"network error", "API error: 500"}

\* C9: the content of a total-failure response does not depend on the text
\* of the provider's error: the run that differs only in the message of the
\* last provider error returns the same content.
C9_GenericContent ==
    \A c \in Calls :
        ( /\ TotalFailure(c)
          /\ calls[c].loc.last_error # None
          /\ calls[c].loc.last_error[1].type \in {"QuotaExceededError", "ProviderUnavailableError"} ) =>
            \A text \in ErrorTexts :
                LET other == Locals(calls[c].loc.attempted_providers,
                                    Some(Exc(calls[c].loc.last_error[1].type, text)),
                                    calls[c].loc.invoked)
                IN  Response(c).content =
                        error_response(exhausted_error(other), Response(c).duration).content

\* C10: the step that ends a complete() call in total failure applies
\* record_failure to every provider attempted in it: each one's failure count
\* is one higher after the step than before.
C10_FailuresRecorded ==
    [][ \A c \in Calls :
          (calls'[c] # calls[c] /\ TotalFailure(c)') =>
              \A i \in 1..Len(calls'[c].loc.invoked) :
                  LET p == calls'[c].loc.invoked[i].provider
                  IN  Get(failure_counts', p, 0) = Get(failure_counts, p, 0) + 1 ]_vars

\* The adapter call that call c is waiting for, or made last
LastInvoked(c) == Invoked(c)[Len(Invoked(c))]
\* [primary_config] + fallback_chain of call c, before the circuit-breaker filter
Candidates(c) ==
    <<calls[c].primary_config>> \o
        get_fallback_chain(FALLBACK_CONFIGS, env, calls[c].request.service_type)

\* C11: the step in which complete() succeeds applies record_success to the
\* provider that produced the response and to no other: afterwards that
\* provider has no failure count, and the counts and failure times of every
\* other provider (candidates that failed earlier in the call, providers not
\* involved) are what they were.
C11_SuccessClearsWinnerOnly ==
    [][ \A c \in Calls :
          (calls[c].pc = "awaiting" /\ Won(c)') =>
              LET winner == calls'[c].response[1].provider
              IN  /\ winner = LastInvoked(c).provider
                  /\ Get(failure_counts', winner, 0) = 0
                  /\ failure_counts' = Pop(failure_counts, winner)
                  /\ last_failure_times' = Pop(last_failure_times, winner) ]_vars

\* C11 witness: a fallback answered after the primary failed; the winner had
\* failures on record when the call began (the last failure reported before
\* the call was its own) and has none now, while the primary that failed and a
\* provider that was not called still have theirs.
C11_Witness ==
    \E c \in Calls :
        /\ Won(c)
        /\ Len(Invoked(c)) >= 2
        /\ probe.op = "record_failure"
        /\ probe.provider = Response(c).provider
        /\ FailureCount(Response(c).provider) = 0
        /\ FailureCount(Invoked(c)[1].provider) > 0
        /\ \E p \in Providers :
             /\ \A i \in 1..Len(Invoked(c)) : Invoked(c)[i].provider # p
             /\ FailureCount(p) > 0

\* C12: a candidate, the primary included, whose circuit is open when it
\* would be dispatched is skipped, provided a registered candidate is
\* available: whenever complete() calls an adapter while some registered
\* candidate's circuit is closed, the circuit of the provider called is closed.
C12_OpenCandidatesSkipped ==
    [][ \A c \in Calls :
          (calls'[c] # calls[c] /\ calls'[c].pc = "awaiting") =>
              LET all == Candidates(c)'
                  called == LastInvoked(c)'
              IN  (\E j \in 1..Len(all) :
                      /\ all[j].provider \in providers
                      /\ is_available(TheBreaker, all[j].provider, now))
                  => is_available(TheBreaker, called.provider, now) ]_vars

\* C13: when the circuit of every candidate is open as complete() begins, the
\* call is made against the whole list [primary] + chain: its first registered
\* candidate is dispatched in that same step.
C13_FailOpen ==
    [][ \A c \in Calls :
          (calls'[c] # calls[c] /\ calls[c].pc \in {"idle", "done"}) =>
              LET k == calls'[c]
                  all == Candidates(c)'
                  registered == {j \in 1..Len(all) : all[j].provider \in providers}
              IN  ( /\ \A j \in 1..Len(all) : ~is_available(TheBreaker, all[j].provider, now)
                    /\ registered # {}
                    /\ execute_request(k.request, k.primary_config).do # "raise" )
                  => /\ k.configs_to_try = all
                     /\ k.pc = "awaiting"
                     /\ Len(k.loc.invoked) = 1
                     /\ \A j \in registered : k.loc.invoked[1].idx <= j
                     /\ k.loc.invoked[1].idx \in registered ]_vars

\* C13 witness: the circuits of all three providers are open, and the call
\* has gone through the primary to a second candidate.
C13_Witness ==
    \E c \in Calls :
        /\ calls[c].pc = "awaiting"
        /\ Len(Invoked(c)) >= 2
        /\ \A p \in Providers : FailureCount(p) >= failure_threshold /\ ~AvailableNow(p)

\* C14: every adapter call of a complete() call goes through
\* vision_completion, with the request's images, exactly when the request's
\* images are a non-empty list, and through chat_completion otherwise; this
\* holds for the primary and for every fallback alike.
C14_VisionIffImages ==
    \A c \in Calls :
        \A i \in 1..Len(Invoked(c)) :
            /\ Invoked(c)[i].method \in {"vision_completion", "chat_completion"}
            /\ Invoked(c)[i].method = "vision_completion" <=>
                 (calls[c].request.images # None /\ Len(calls[c].request.images[1]) > 0)
            /\ Invoked(c)[i].method = "vision_completion" =>
                 Invoked(c)[i].images = calls[c].request.images[1]

\* C14 witness: an OCR request with images whose primary raised
\* QuotaExceededError and whose fallback was called through vision_completion.
C14_Witness ==
    \E c \in Calls :
        /\ calls[c].request.service_type = "ocr"
        /\ Len(Invoked(c)) >= 2
        /\ Invoked(c)[1].idx = 1
        /\ Invoked(c)[1].outcome = "QuotaExceededError"
        /\ Invoked(c)[2].idx > 1
        /\ Invoked(c)[2].method = "vision_completion"
        /\ Invoked(c)[2].images = << "img1" >>

\* C15: a complete() call for a service type that has no default and no
\* configuration in the environment is not served with the configuration of
\* another service type: it has no primary config and no candidates.
C15_NoConfigForUnmappedType ==
    \A c \in Calls :
        ( /\ calls[c].pc # "idle"
          /\ calls[c].request.service_type \notin DOMAIN DEFAULT_CONFIGS
          /\ load_from_env(env, calls[c].request.service_type) = None ) =>
            /\ calls[c].primary_config = NoConfig
            /\ calls[c].configs_to_try = <<>>

\* The text of the terminal error of execute() for the locals it ended with
TerminalText(c) == exhausted_error(calls[c].loc).text

\* C19: no adapter error leaves execute(): an adapter call that raised is
\* followed by a later candidate or by the end of the list, and a call that
\* ended without a response ended with the terminal ProviderUnavailableError,
\* after every candidate was skipped (not registered, provider already
\* attempted) or failed, its message carrying the last error observed.
C19_OnlyTerminalErrorEscapes ==
    \A c \in Calls :
        /\ \A i \in 1..Len(Invoked(c)) :
             (Invoked(c)[i].outcome \notin {"ok", "pending"}) =>
                 \/ i < Len(Invoked(c))
                 \/ calls[c].idx > Len(calls[c].configs_to_try)
        /\ TotalFailure(c) =>
             /\ calls[c].idx > Len(calls[c].configs_to_try)
             /\ \A j \in 1..Len(calls[c].configs_to_try) :
                  \/ calls[c].configs_to_try[j].provider \notin providers
                  \/ InList(calls[c].configs_to_try[j].provider, calls[c].loc.attempted_providers)
             /\ Response(c).error = Some(TerminalText(c))
             /\ TerminalText(c) =
                  "All providers exhausted. Last error: " \o StrOpt(calls[c].loc.last_error)
             /\ Len(Invoked(c)) > 0 =>
                  /\ calls[c].loc.last_error # None
                  /\ calls[c].loc.last_error[1].type = LastInvoked(c).outcome

\* C19 witness: the last adapter called raised an exception that is neither
\* of the two model errors, and the call ended with the terminal error.
C19_Witness ==
    \E c \in Calls :
        /\ TotalFailure(c)
        /\ Len(Invoked(c)) >= 2
        /\ LastInvoked(c).outcome = "KeyError"
        /\ Response(c).error = Some("All providers exhausted. Last error: 'choices'")

\* C20: a request with stream = true, with or without images, makes no
\* adapter call.
C20_StreamNeverDispatched ==
    \A c \in Calls :
        calls[c].request.stream => Len(Invoked(c)) = 0

\* The adapter method called on its own has ended
Ended == exchange.pc = "done"
\* It returned a ModelResponse
Returned == Ended /\ exchange.result[1].kind = "return"
\* It raised
Raised == Ended /\ exchange.result[1].kind = "raise"
\* The vendor answered with HTTP status 429
Answered429 ==
    /\ Ended
    /\ exchange.http[1].kind = "response"
    /\ exchange.http[1].status_code = 429

\* C16: the usage of every ModelResponse an adapter returns satisfies
\* total_tokens = prompt_tokens + completion_tokens, whichever token-count
\* fields the vendor's body has.
C16_TotalIsSum ==
    Returned =>
        LET usage == exchange.result[1].value.usage
        IN  usage["total_tokens"] = usage["prompt_tokens"] + usage["completion_tokens"]

\* C17: an adapter method whose HTTP request is answered with status 429
\* raises QuotaExceededError, on the chat path and on the vision path.
C17_QuotaOn429 ==
    Answered429 =>
        /\ Raised
        /\ exchange.result[1].exc.type = "QuotaExceededError"

\* C18: an adapter method that fails raises QuotaExceededError or
\* ProviderUnavailableError and nothing else, and a failure that is not a 429
\* answer is a ProviderUnavailableError.
C18_TwoKindsOnly ==
    Raised =>
        /\ exchange.result[1].exc.type \in {"QuotaExceededError", "ProviderUnavailableError"}
        /\ ~Answered429 => exchange.result[1].exc.type = "ProviderUnavailableError"

\* C26: in every state of the circuit breaker the two dicts have the same
\* keys and every recorded count is at least 1: a provider has a last failure
\* time exactly when its failure count is at least 1, and no count is negative.
C26_CountsAndTimesAgree ==
    /\ DOMAIN failure_counts = DOMAIN last_failure_times
    /\ \A p \in DOMAIN failure_counts : failure_counts[p] >= 1
    /\ \A p \in Providers :
         /\ FailureCount(p) >= 0
         /\ p \in DOMAIN last_failure_times <=> FailureCount(p) >= 1

\* C26 witness: is_available has just reset a provider that had failures,
\* while another provider still has its count and its time.
C26_Witness ==
    /\ probe.op = "is_available"
    /\ probe.prior >= 1
    /\ probe.provider \notin DOMAIN failure_counts
    /\ probe.provider \notin DOMAIN last_failure_times
    /\ DOMAIN failure_counts # {}

\* C27: a call of is_available(p), record_failure(p) or record_success(p)
\* leaves the failure count and the last failure time of every other provider
\* as they were.
C27_OtherProvidersUntouched ==
    [][ \A q \in Providers :
          q # probe'.provider =>
              /\ Get(failure_counts', q, 0) = Get(failure_counts, q, 0)
              /\ q \in DOMAIN last_failure_times' <=> q \in DOMAIN last_failure_times
              /\ q \in DOMAIN last_failure_times =>
                   last_failure_times'[q] = last_failure_times[q] ]_vars

\* C27 witness: the timed reset inside is_available(p) has cleared p while the
\* circuit of another provider, open for as long, stays open.
C27_Witness ==
    /\ probe.op = "is_available"
    /\ probe.prior >= failure_threshold
    /\ probe.answer
    /\ \E q \in Providers \ {probe.provider} :
         /\ FailureCount(q) >= failure_threshold
         /\ ResetDue(TheBreaker, q, now)

\* C28: the statistics count the calls that return a provider's response
\* and nothing else: the step that ends such a call adds 1 to request_count
\* and the call's duration to total_duration, and every other step, the end of
\* a call in an error response included, leaves both as they were.
C28_StatsCountSuccesses ==
    [][ LET won == {c \in Calls : calls'[c] # calls[c] /\ Won(c)'}
        IN  /\ \A c \in won :
                  /\ request_count' = request_count + 1
                  /\ total_duration' = total_duration + calls'[c].response[1].duration
            /\ won = {} =>
                  /\ request_count' = request_count
                  /\ total_duration' = total_duration ]_vars

\* C28 witness: a call that took time has returned a provider's response after
\* an earlier candidate failed, and it is the one request counted.
C28_Witness ==
    \E c \in Calls :
        /\ Won(c)
        /\ Len(Invoked(c)) >= 2
        /\ Response(c).duration > 0
        /\ request_count = 1
        /\ total_duration = Response(c).duration

\* C21: within one complete() call the attempts are strictly sequential, also
\* while another complete() call is in progress: only the last adapter call
\* made can be in flight, and only while the call is waiting for it; every
\* earlier adapter call has failed, and was made on an earlier candidate.
C21_OneAttemptInFlight ==
    \A c \in Calls :
        LET n == Len(Invoked(c))
        IN  /\ \A i \in 1..n :
                 Invoked(c)[i].outcome = "pending" => (i = n /\ calls[c].pc = "awaiting")
            /\ calls[c].pc = "awaiting" => (n >= 1 /\ Invoked(c)[n].outcome = "pending")
            /\ \A i \in 1..(n - 1) :
                 /\ Invoked(c)[i].outcome \notin {"ok", "pending"}
                 /\ Invoked(c)[i].idx < Invoked(c)[i + 1].idx

\* C21 witness: two complete() calls wait for an adapter at the same time,
\* one of them on its second candidate or a later one.
C21_Witness ==
    \E c, d \in Calls :
        /\ c # d
        /\ calls[c].pc = "awaiting"
        /\ calls[d].pc = "awaiting"
        /\ Len(Invoked(c)) >= 2

\* Another task has just called record_failure(p)
JustFailed(p) ==
    /\ probe' # probe
    /\ probe'.op = "record_failure"
    /\ probe'.provider = p
\* A complete() call has just succeeded with p's response
JustSucceeded(p) ==
    \E c \in Calls :
        /\ calls[c].pc = "awaiting"
        /\ Won(c)'
        /\ calls'[c].response[1].provider = p

\* C22: with complete() calls interleaved on one manager, no update of the
\* circuit state is lost: every record_failure(p) adds exactly 1 to p's count
\* and sets its failure time, and no other step changes the count, except that
\* a success of p or p's timed reset clears it.  So k record_failure(p) calls
\* with no success of p and no timed reset between them leave the count at k
\* more than it was.
C22_NoLostUpdate ==
    [][ \A p \in Providers :
          LET before == Get(failure_counts, p, 0)
              after == Get(failure_counts', p, 0)
          IN  /\ JustFailed(p) =>
                   /\ after = before + 1
                   /\ last_failure_times'[p] = now
              /\ ~JustFailed(p) =>
                   \/ after = before
                   \/ /\ after = 0
                      /\ JustSucceeded(p) \/ ResetDue(TheBreaker, p, now) ]_vars

\* C22 witness: while one complete() call waits for its adapter, another has
\* succeeded with the provider whose failures a third task reports; more
\* failures were reported in all than are on record, and those reported since
\* the success are all counted.
C22_Witness ==
    \E c, d \in Calls :
        /\ calls[c].pc = "awaiting"
        /\ Won(d)
        /\ probe.op = "record_failure"
        /\ probe.provider = Response(d).provider
        /\ FailureCount(probe.provider) >= 2
        /\ probe.run > FailureCount(probe.provider)

\* C23: every adapter call the orchestrator makes runs under the timeout of the
\* request for the candidate attempted: the timeout override of the call if one
\* was given, otherwise the timeout of the candidate's ModelConfig.
C23_TimeoutHandedOn ==
    \A c \in Calls : \A i \in 1..Len(Invoked(c)) :
        LET call == Invoked(c)[i]
            config == Candidates(c)[call.idx]
            request == calls[c].request
        IN  post_timeout(call.params) =
              IF request.timeout # None THEN request.timeout[1] ELSE config.timeout

\* C29: a temperature or max_tokens override given to complete(), 0 included,
\* is the value every adapter call receives; the candidate's ModelConfig value
\* is received only when no override was given.
C29_OverrideHandedOn ==
    \A c \in Calls : \A i \in 1..Len(Invoked(c)) :
        LET call == Invoked(c)[i]
            config == Candidates(c)[call.idx]
            request == calls[c].request
        IN  /\ call.params.temperature =
                 IF request.temperature # None THEN request.temperature[1]
                 ELSE config.temperature
            /\ call.params.max_tokens =
                 IF request.max_tokens # None THEN request.max_tokens[1]
                 ELSE config.max_tokens

\* C24: the circuit state of the process is consulted by every request,
\* through a ModelService instance or through the module-level qa_completion:
\* a request that starts offers its primary candidate followed by exactly the
\* fallback candidates that is_available admits on the circuit state recorded
\* so far.
C24_CircuitStatePersists ==
    [][ \A c \in Calls :
          (calls[c].pc # "awaiting" /\ calls'[c] # calls[c]) =>
             calls'[c].configs_to_try =
               <<calls'[c].primary_config>> \o
                 available_chain(
                   get_fallback_chain(FALLBACK_CONFIGS, env, calls'[c].request.service_type),
                   TheBreaker, now) ]_vars

\* C25: an adapter method called with the caller's messages, the default
\* vision_completion included, leaves the list and its entries as they were:
\* once the method has made its call, the caller's messages read what they
\* read when the method was called.
C25_MessagesUnchanged ==
    exchange.pc # "idle" =>
        Deref(exchange.heap, exchange.messages) = exchange.given

\* C30: provider inference agrees with the compiled-in configuration: when
\* the environment sets a service's model override to a model name of a
\* compiled-in ModelConfig, the primary config of a request for that service
\* has the provider that the compiled-in entry declares for the name.
C30_InferenceAgreesWithCompiledIn ==
    \A c \in Calls :
        calls[c].pc # "idle" =>
            LET st == calls[c].request.service_type
                name == getenv(env, ModelVariable(st), "")
            IN  name \in CompiledModelNames =>
                  calls[c].primary_config.provider \in DeclaredProviders(name)

====
